---- MODULE Spec2Model ----
(***************************************************************************)
(* The document indexing worker of FinanceRAG                              *)
(* (src/worker/document_indexing_worker.py) with the collaborators it      *)
(* talks to: the documents table, the Service Bus queue, the indexer       *)
(* trigger and the search index.                                           *)
(*                                                                         *)
(* One task runs process_message for one delivery of one message.  Every   *)
(* await of the handler that touches shared state is one action.  The      *)
(* calls that can raise (store, search, trigger, queue) raise or not by a  *)
(* nondeterministic choice.                                                *)
(*                                                                         *)
(* Spec          the worker's process_message tasks alone                  *)
(* SpecSystem    the worker with the other writers of documents.status:    *)
(*               the metadata background task (webhooks.py), the admin     *)
(*               status sync (admin.py), the function queue handler        *)
(*               (azure_function/function_app.py)                          *)
(* SpecLifespan  the worker and the shutdown of the application (main.py)  *)
(* SpecDispatch  the dispatch loop of start(), its tasks as a counter      *)
(* SpecTraced    the worker on one document, a rejected trigger recorded   *)
(* SpecFunction  the function queue handler alone on the queue             *)
(* SpecWire      publish_document_event's body read by process_message     *)
(* SpecMerge     merge_metadata_for_document, service and function version *)
(* SpecUpload    upload_document with the publisher, then the worker       *)
(***************************************************************************)
EXTENDS Integers, FiniteSets, Sequences, TLC

\* ---- bounds of the model
NumDocs == 2
NumMsgs == 2
MaxDeliveries == 2
NumQueued == 12
MaxNameLen == 2
MaxMergeRetries == 4

\* ---- program constants
max_retries == 12
max_concurrent_messages == 10

Docs == 1..NumDocs
\* an id no row of the documents table has
MissingId == NumDocs + 1
Ids == Docs \cup {MissingId}
Msgs == 1..NumMsgs

\* ---- DocumentStatus (ABSENT: no row with that id)
PENDING == "pending"
PROCESSING == "processing"
INDEXED == "indexed"
FAILED == "failed"
ABSENT == "absent"
DocumentStatus == {PENDING, PROCESSING, INDEXED, FAILED}

NULL == "NULL"

TimeoutMessage == "Indexing timeout: chunks not found after 2 minutes"
PriorError == "prior failure"

\* ---- message payloads as json.loads and the four lookups see them
\*   ok            a JSON object with the four fields
\*   missing_field a JSON object lacking one of the four fields
\*   not_object    valid JSON that is no object (list, string, number, null)
\*   not_json      text json.loads rejects
PayloadKinds == {"ok", "missing_field", "not_object", "not_json"}

VARIABLES
    status,           \* documents.status per id (ABSENT: no row)
    error_message,    \* documents.error_message
    processing_lock_id,     \* documents.processing_lock_id
    processing_started_at,  \* documents.processing_started_at
    rowLock,          \* the tasks whose transaction holds the row lock (FOR UPDATE)
    artifact,         \* whether chunks of the document are in the search index
    payload,          \* kind of body of each message, and the document it names
    pc,               \* position of the task handling the message
    attempt,          \* loop variable of wait_for_indexing
    seen,             \* document.status as read by try_acquire_lock in this delivery
    ev,               \* what this delivery has done so far (history)
    disposition,      \* queue disposition that took effect for this delivery
    deliveries,       \* delivery count of the message
    status0,          \* status of each document before the worker ran (history)
    triggerCount,     \* calls of trigger_indexer_run per document (history)
    terminalWrites,   \* INDEXED/FAILED writes the worker committed, per document
    acquireTrue,      \* try_acquire_lock calls that returned True, per document
    acquireClean,     \* try_acquire_lock calls that returned without a store error
    checks,           \* check_chunks_exist calls of wait_for_indexing in this delivery
    delays,           \* asyncio.sleep(retry_delay) calls of wait_for_indexing
    abandonedWith,    \* status of the document when the message was abandoned
                      \* by the delivery that had claimed it, and the number
                      \* of that delivery (history)
    worker,           \* the worker task of the application: running or stopped
    mergePc,          \* position of the metadata background task of each document
    mergeResult,      \* what merge_metadata_for_document returned to it
    syncPc,           \* position of the admin status sync request
    syncDirty,        \* documents the sync request has marked INDEXED, uncommitted
    loop,             \* position of the dispatch loop of start()
    active,           \* messages waiting in the queue, as the dispatch loop counts them
    batchSize,        \* messages of the batch the loop received last
    inFlight,         \* process_message tasks of the loop that have not finished
    escaped,          \* tasks of the batch that ended by raising
    wirePc,           \* position of one event on its way from publisher to worker
    event,            \* the arguments publish_document_event was called with
    body,             \* the body of the message, a text
    data,             \* the four fields process_message read from the body
    mergeImpl,        \* which merge_metadata_for_document runs: service or function
    merge_max_retries,  \* its argument max_retries
    mergeCallPc,      \* position of the call
    mergeAttempt,     \* its loop variable attempt
    mergeLog,         \* how each attempt that has ended went (history)
    mergeSearches,    \* calls of _search_chunks_by_parent_id (history)
    mergeWrites,      \* calls of _merge_metadata_into_chunks (history)
    mergeDelays,      \* asyncio.sleep(retry_delay) calls (history)
    mergeReturn,      \* the dictionary the call returned: status and attempts
    uploadPc,         \* position of the upload request of document 1
    publishReturn,    \* what publish_document_event returned to it
    sentEvent,        \* send_messages returned: the event is in the queue (history)
    uploadResponse    \* the HTTP status the upload request was answered with

vars == <<status, error_message, processing_lock_id, processing_started_at,
          rowLock, artifact, payload, pc, attempt, seen, ev, disposition,
          deliveries, status0, triggerCount, terminalWrites, acquireTrue,
          acquireClean, checks, delays, abandonedWith, worker, mergePc, mergeResult, syncPc,
          syncDirty, loop, active, batchSize, inFlight, escaped, wirePc, event,
          body, data, mergeImpl, merge_max_retries, mergeCallPc, mergeAttempt,
          mergeLog, mergeSearches, mergeWrites, mergeDelays, mergeReturn,
          uploadPc, publishReturn, sentEvent, uploadResponse>>

docVars == <<status, error_message, processing_lock_id, processing_started_at>>
histVars == <<status0, triggerCount, terminalWrites, acquireTrue, acquireClean>>
waitVars == <<checks, delays>>
sysVars == <<worker, mergePc, mergeResult, syncPc, syncDirty>>
loopVars == <<loop, active, batchSize, inFlight, escaped>>
wireVars == <<wirePc, event, body, data>>
mergerVars == <<mergeImpl, merge_max_retries, mergeCallPc, mergeAttempt, mergeLog,
                mergeSearches, mergeWrites, mergeDelays, mergeReturn>>
uploadVars == <<uploadPc, publishReturn, sentEvent, uploadResponse>>
otherVars == <<wireVars, mergerVars, uploadVars>>

DocOf(m) == payload[m].document_id

\* the message is in the active queue and no task holds it
Deliverable(m) ==
    /\ pc[m] \in {"queued", "done", "cancelled"}
    /\ disposition[m] \in {"none", "abandoned"}
    /\ deliveries[m] < MaxDeliveries

\* ---- pure parts of the handler

\* json.loads(str(message)) and data[...] for the four keys: does line 101-105 raise
ParseRaises(kind) == kind # "ok"

\* the except handler's log line evaluates data.get(...): data is unbound when
\* json.loads raised, and has no .get when it is no dict
HandlerLogRaises(kind) == kind \in {"not_json", "not_object"}

\* variant of CanClaim: a row left PROCESSING is claimed again
CanClaim_RetryProcessing(s) == s \in {PENDING, PROCESSING}
\* variant of CanClaim: a FAILED row is claimed again
CanClaim_RetryFailed(s) == s \in {PENDING, FAILED}
\* try_acquire_lock line 192: only a PENDING row is claimed
CanClaim(s) == s = PENDING

\* variant of RowLockFree: a plain select, which waits for nobody
RowLockFree_NoForUpdate(d) == TRUE
\* with_for_update(): the select waits while another transaction holds the row
RowLockFree(d) == rowLock[d] = {}

\* variant of ClaimedStatus: the claim leaves the status as it was
ClaimedStatus_StaysPending == PENDING
\* try_acquire_lock line 197: the status a claim writes
ClaimedStatus == PROCESSING

\* variant of AfterTrigger: a rejected run reaches the handler as an exception
AfterTrigger_RejectedRaises(outcome) ==
    IF outcome \in {"raise", "rejected"} THEN "except" ELSE "poll"
\* variant of AfterTrigger: an exception of the trigger is ignored
AfterTrigger_Swallowed(outcome) == "poll"
\* process_message line 120: an exception of the trigger reaches the handler
AfterTrigger(outcome) == IF outcome = "raise" THEN "except" ELSE "poll"

\* variant of ResolvedStatus: FAILED whatever the poll returned
ResolvedStatus_AlwaysFailed(success) == FAILED
\* process_message lines 125-143: status and message the poll result resolves to
ResolvedStatus(success) == IF success THEN INDEXED ELSE FAILED
ResolvedMessage(success) == IF success THEN NULL ELSE TimeoutMessage

\* variant of ResolvedDisposition: a timeout abandons the message
ResolvedDisposition_AbandonOnTimeout(success) ==
    IF success THEN "complete" ELSE "abandon"
\* process_message lines 134, 146: the queue call after the status update
ResolvedDisposition(success) == IF success THEN "complete" ELSE "dead_letter"

\* the columns of the documents table the Document class maps, among those the
\* worker assigns; the commit writes a mapped attribute and no other
MappedColumns == {"status", "error_message", "updated_at"}
Persisted(column, old, new) == IF column \in MappedColumns THEN new ELSE old

\* update_document_status lines 303-304: error_message is assigned only when truthy
NewErrorMessage(old, msg) == IF msg # NULL THEN msg ELSE old

\* variant of Uncommitted: what was assigned before the exception is stored
Uncommitted_Flushed(old, new) == new
\* try_acquire_lock lines 178, 206-208: the exception leaves the session block
\* without a commit, and closing the session discards what was assigned
Uncommitted(old, new) == old

\* variant of AfterAcquire: the result of try_acquire_lock is not looked at
AfterAcquire_Ignored(lock_acquired) == "trigger"
\* process_message lines 110-120: return after a failed claim, trigger after
\* a successful one
AfterAcquire(lock_acquired) == IF lock_acquired THEN "trigger" ELSE "skip"

\* variant of SkippedDisposition: a failed claim abandons the message
SkippedDisposition_Abandon == "abandon"
\* process_message line 115: the queue call after a failed claim
SkippedDisposition == "complete"

\* what a queue call that returned leaves in the queue
Effect(call) ==
    CASE call = "complete" -> "completed"
      [] call = "dead_letter" -> "dead_lettered"
      [] call = "abandon" -> "abandoned"

Payloads ==
    [kind : {"ok"}, document_id : Ids]
        \cup [kind : PayloadKinds \ {"ok"}, document_id : {0}]

\* ---- initial states: documents as the upload flow and earlier processing
\* leave them, messages queued, no task started
InitStoreAndTasks ==
    /\ status0 \in [Ids -> DocumentStatus \cup {ABSENT}]
    /\ status0[MissingId] = ABSENT
    /\ \A d \in Docs : status0[d] # ABSENT
    /\ status = status0
    /\ error_message =
         [d \in Ids |->
            IF status0[d] = FAILED THEN PriorError ELSE NULL]
    /\ processing_lock_id = [d \in Ids |-> NULL]
    /\ processing_started_at = [d \in Ids |-> NULL]
    /\ rowLock = [d \in Ids |-> {}]
    /\ artifact = [d \in Ids |-> FALSE]
    /\ payload \in [Msgs -> Payloads]
    /\ pc = [m \in Msgs |-> "queued"]
    /\ attempt = [m \in Msgs |-> 0]
    /\ seen = [m \in Msgs |-> NULL]
    /\ ev = [m \in Msgs |-> {}]
    /\ disposition = [m \in Msgs |-> "none"]
    /\ deliveries = [m \in Msgs |-> 0]
    /\ triggerCount = [d \in Ids |-> 0]
    /\ terminalWrites = [d \in Ids |-> 0]
    /\ acquireTrue = [d \in Ids |-> 0]
    /\ acquireClean = [d \in Ids |-> 0]
    /\ checks = [m \in Msgs |-> 0]
    /\ delays = [m \in Msgs |-> 0]
    /\ abandonedWith = [m \in Msgs |-> [status |-> NULL, delivery |-> 0]]
    /\ worker = "running"
    /\ mergePc = [d \in Docs |-> "idle"]
    /\ mergeResult = [d \in Docs |-> NULL]
    /\ syncPc = "idle"
    /\ syncDirty = {}

\* the dispatch loop is looked at on its own, in SpecDispatch
InitLoopOff ==
    /\ loop = "off"
    /\ active = 0
    /\ batchSize = 0
    /\ inFlight = 0
    /\ escaped = 0

NoEvent == [document_id |-> 0, blob_name |-> <<>>, folder_id |-> 0, user_id |-> 0]

\* nothing is published in the specifications of the worker
InitWireOff ==
    /\ wirePc = "off"
    /\ event = NoEvent
    /\ body = <<>>
    /\ data = NoEvent

\* ======== merge_metadata_for_document on its own: the retry loop of
\* MetadataMergerService (app/services/metadata_merger_service.py, called by
\* the webhook's background task) and of MetadataMerger
\* (azure_function/shared_code/metadata_merger.py)

MergeImpls == {"service", "function"}

\* variant of MergeMoreAttempts: the loop runs one attempt more
MergeMoreAttempts_OneMore(k, n) == k <= n
\* service line 92, function line 109: for attempt in range(1, max_retries + 1)
MergeMoreAttempts(k, n) == k < n

\* service lines 121-123 and 139-140, function lines 131-138: an attempt that
\* found no chunk or that raised is followed by a delay unless it is the last
MergeSleepsAfter(k, n) == k < n

\* variant of MergeSwallows: an exception of the merge write leaves the call
MergeSwallows_WriteRaises(kind) == kind # "write_err"
\* service line 135, function line 136: except Exception, around the search
\* and the merge write of an attempt
MergeSwallows(kind) == TRUE

\* what the service returns in the else branches of its last attempt, lines
\* 124-133 and 141-146
MergeLastStatus(kind) == IF kind = "none" THEN "no_chunks_found" ELSE "error"
\* what is returned after the loop: service lines 148-151 (no attempts key),
\* function lines 140-144
MergeEndStatus(impl) == IF impl = "service" THEN "error" ELSE "no_chunks_found"
MergeEndAttempts(impl, n) == IF impl = "service" THEN 0 ELSE n

NotReturned == [status |-> NULL, attempts |-> 0]

\* the call is not running in the specifications of the worker
InitMergerOff ==
    /\ mergeImpl = "service"
    /\ merge_max_retries = 0
    /\ mergeCallPc = "off"
    /\ mergeAttempt = 0
    /\ mergeLog = <<>>
    /\ mergeSearches = 0
    /\ mergeWrites = 0
    /\ mergeDelays = 0
    /\ mergeReturn = NotReturned

\* ======== upload_document (app/api/routes/documents.py) and
\* publish_document_event, followed by the worker

NotUploading ==
    /\ uploadPc = "off"
    /\ publishReturn = "none"
    /\ sentEvent = FALSE
    /\ uploadResponse = "none"

InitOthersOff == InitWireOff /\ InitMergerOff /\ NotUploading

Init == InitStoreAndTasks /\ InitLoopOff /\ InitOthersOff

\* ---- the queue hands the message to a process_message task
\* (start, lines 65-78; a message abandoned or whose lock expired comes again)
Receive(m) ==
    /\ worker = "running"
    /\ Deliverable(m)
    /\ pc' = [pc EXCEPT ![m] = "parse"]
    /\ deliveries' = [deliveries EXCEPT ![m] = @ + 1]
    /\ ev' = [ev EXCEPT ![m] = {}]
    /\ seen' = [seen EXCEPT ![m] = NULL]
    /\ attempt' = [attempt EXCEPT ![m] = 0]
    /\ disposition' = [disposition EXCEPT ![m] = "none"]
    /\ checks' = [checks EXCEPT ![m] = 0]
    /\ delays' = [delays EXCEPT ![m] = 0]
    /\ UNCHANGED <<abandonedWith, sysVars, loopVars, otherVars,
                   docVars, rowLock, artifact, payload, histVars>>

\* ---- process_message lines 100-107: parse the body
Parse(m) ==
    /\ pc[m] = "parse"
    /\ pc' = [pc EXCEPT ![m] =
                IF ParseRaises(payload[m].kind) THEN "except" ELSE "acquire"]
    /\ UNCHANGED <<waitVars, abandonedWith, sysVars, loopVars, otherVars,
                   docVars, rowLock, artifact, payload, attempt, seen, ev,
                   disposition, deliveries, histVars>>

\* check_chunks_exist lines 255-272: an exception of the search is answered False
ChunksExist(outcome, d) == IF outcome = "raise" THEN FALSE ELSE artifact[d]

\* variant of MoreAttempts: the loop runs attempts 1..max_retries + 1
MoreAttempts_OneMore(k) == k <= max_retries
\* wait_for_indexing line 223: the loop runs attempts 1..max_retries
MoreAttempts(k) == k < max_retries

\* wait_for_indexing lines 237-238: the delay after a negative check
SleepsAfter(k) == k < max_retries

Add(m, tags) == [ev EXCEPT ![m] = @ \cup tags]

\* ---- try_acquire_lock lines 178-194: SELECT ... FOR UPDATE and the checks
TryAcquireSelect(m) ==
    LET d == DocOf(m) IN
    /\ pc[m] = "acquire"
    /\ \/ \* the store raises: line 206-208 returns False
          /\ pc' = [pc EXCEPT ![m] = AfterAcquire(FALSE)]
          /\ ev' = Add(m, {"claim_err"})
          /\ UNCHANGED <<seen, rowLock, acquireClean>>
       \/ \* no row (187-189), or a row that is not claimable (192-194)
          /\ status[d] = ABSENT \/ (RowLockFree(d) /\ ~CanClaim(status[d]))
          /\ seen' = [seen EXCEPT ![m] = status[d]]
          /\ pc' = [pc EXCEPT ![m] = AfterAcquire(FALSE)]
          /\ ev' = Add(m, {"skipped"})
          /\ acquireClean' = [acquireClean EXCEPT ![d] = @ + 1]
          /\ UNCHANGED rowLock
       \/ \* a claimable row: the transaction now holds the row lock
          /\ status[d] # ABSENT /\ RowLockFree(d) /\ CanClaim(status[d])
          /\ seen' = [seen EXCEPT ![m] = status[d]]
          /\ rowLock' = [rowLock EXCEPT ![d] = @ \cup {m}]
          /\ pc' = [pc EXCEPT ![m] = "commit"]
          /\ UNCHANGED <<ev, acquireClean>>
    /\ UNCHANGED <<waitVars, abandonedWith, sysVars, loopVars, otherVars,
                   docVars, artifact, payload, attempt, disposition, deliveries,
                   status0, triggerCount, terminalWrites, acquireTrue>>

\* ---- try_acquire_lock lines 196-204: write the claim and commit
TryAcquireCommit(m) ==
    LET d == DocOf(m) IN
    /\ pc[m] = "commit"
    /\ rowLock' = [rowLock EXCEPT ![d] = @ \ {m}]
    /\ \/ \* committed
          /\ status' = [status EXCEPT ![d] = ClaimedStatus]
          /\ processing_started_at' =
               [processing_started_at EXCEPT ![d] =
                  Persisted("processing_started_at", @, "set")]
          /\ processing_lock_id' =
               [processing_lock_id EXCEPT ![d] =
                  Persisted("processing_lock_id", @, <<m, deliveries[m]>>)]
          /\ ev' = Add(m, {"claimed"})
          /\ acquireTrue' = [acquireTrue EXCEPT ![d] = @ + 1]
          /\ acquireClean' = [acquireClean EXCEPT ![d] = @ + 1]
          /\ pc' = [pc EXCEPT ![m] = AfterAcquire(TRUE)]
       \/ \* the commit raises: rolled back, line 206-208 returns False
          /\ ev' = Add(m, {"claim_err"})
          /\ pc' = [pc EXCEPT ![m] = AfterAcquire(FALSE)]
          /\ status' = [status EXCEPT ![d] = Uncommitted(@, ClaimedStatus)]
          /\ UNCHANGED <<processing_started_at, processing_lock_id,
                         acquireTrue, acquireClean>>
    /\ UNCHANGED <<waitVars, abandonedWith, sysVars, loopVars, otherVars,
                   error_message, artifact, payload, attempt, seen, disposition,
                   deliveries, status0, triggerCount, terminalWrites>>

\* a queue call of the handler: it takes effect, or it raises
QueueCall(m, call, ok) ==
    /\ ev' = Add(m, IF ok THEN {call} ELSE {call, "queue_err"})
    /\ disposition' = [disposition EXCEPT ![m] = IF ok THEN Effect(call) ELSE @]

\* ---- process_message lines 112-116: the claim failed, complete the message
CompleteSkipped(m) ==
    /\ pc[m] = "skip"
    /\ \E ok \in BOOLEAN :
          /\ QueueCall(m, SkippedDisposition, ok)
          /\ pc' = [pc EXCEPT ![m] = IF ok THEN "done" ELSE "except"]
    /\ UNCHANGED <<waitVars, abandonedWith, sysVars, loopVars, otherVars,
                   docVars, rowLock, artifact, payload, attempt, seen,
                   deliveries, histVars>>

\* what the history of a delivery keeps of a trigger call
TriggerTags(outcome) ==
    IF outcome = "raise" THEN {"trigger", "trigger_err"} ELSE {"trigger"}
\* the same, with the rejected run told from the accepted one
TriggerTagsTraced(outcome) ==
    CASE outcome = "raise" -> {"trigger", "trigger_err"}
      [] outcome = "rejected" -> {"trigger", "trigger_rejected"}
      [] OTHER -> {"trigger"}

\* ---- process_message line 120 and trigger_indexer_run: the run is accepted
\* (202), rejected (an error value is returned), or the call raises
TriggerCall(m, traced) ==
    LET d == DocOf(m) IN
    /\ pc[m] = "trigger"
    /\ triggerCount' = [triggerCount EXCEPT ![d] = @ + 1]
    /\ \E outcome \in {"accepted", "rejected", "raise"} :
          /\ ev' = Add(m, IF traced THEN TriggerTagsTraced(outcome)
                                     ELSE TriggerTags(outcome))
          /\ pc' = [pc EXCEPT ![m] = AfterTrigger(outcome)]
    /\ attempt' = [attempt EXCEPT ![m] = IF pc'[m] = "poll" THEN 1 ELSE @]
    /\ UNCHANGED <<waitVars, abandonedWith, sysVars, loopVars, otherVars,
                   docVars, rowLock, artifact, payload, seen, disposition,
                   deliveries, status0, terminalWrites, acquireTrue, acquireClean>>

Trigger(m) == TriggerCall(m, FALSE)
TriggerTraced(m) == TriggerCall(m, TRUE)

\* ---- wait_for_indexing lines 223-243: one attempt of the loop
Poll(m) ==
    LET d == DocOf(m) IN
    /\ pc[m] = "poll"
    /\ checks' = [checks EXCEPT ![m] = @ + 1]
    /\ \E outcome \in {"answer", "raise"} :
         LET tags == IF outcome = "raise" THEN {"poll", "search_err"} ELSE {"poll"} IN
         IF ChunksExist(outcome, d)
           THEN /\ ev' = Add(m, tags \cup {"found"})
                /\ pc' = [pc EXCEPT ![m] = "update"]
                /\ UNCHANGED <<attempt, delays>>
           ELSE /\ delays' = [delays EXCEPT ![m] =
                                IF SleepsAfter(attempt[m]) THEN @ + 1 ELSE @]
                /\ IF MoreAttempts(attempt[m])
                     THEN /\ ev' = Add(m, tags)
                          /\ attempt' = [attempt EXCEPT ![m] = @ + 1]
                          /\ UNCHANGED pc
                     ELSE /\ ev' = Add(m, tags \cup {"timeout"})
                          /\ pc' = [pc EXCEPT ![m] = "update"]
                          /\ UNCHANGED attempt
    /\ UNCHANGED <<abandonedWith, sysVars, loopVars, otherVars,
                   docVars, rowLock, artifact, payload, seen, disposition,
                   deliveries, histVars>>

\* ---- update_document_status lines 288-316, called at line 127 or 139
UpdateStatus(m) ==
    LET d == DocOf(m)
        success == "found" \in ev[m]
    IN
    /\ pc[m] = "update"
    /\ pc' = [pc EXCEPT ![m] = "dispose"]
    /\ \/ \* committed
          /\ status[d] # ABSENT
          /\ status' = [status EXCEPT ![d] = ResolvedStatus(success)]
          /\ error_message' =
               [error_message EXCEPT ![d] = NewErrorMessage(@, ResolvedMessage(success))]
          /\ terminalWrites' = [terminalWrites EXCEPT ![d] = @ + 1]
          /\ ev' = Add(m, {IF ResolvedStatus(success) = INDEXED
                             THEN "write_indexed" ELSE "write_failed"})
       \/ \* no row: lines 295-297 log and return
          /\ status[d] = ABSENT
          /\ ev' = Add(m, {"write_missing"})
          /\ UNCHANGED <<status, error_message, terminalWrites>>
       \/ \* the store raises: lines 312-316 log and return
          /\ ev' = Add(m, {"write_err"})
          /\ UNCHANGED <<status, error_message, terminalWrites>>
    /\ UNCHANGED <<waitVars, abandonedWith, sysVars, loopVars, otherVars,
                   processing_lock_id, processing_started_at, rowLock, artifact,
                   payload, attempt, seen, disposition, deliveries, status0,
                   triggerCount, acquireTrue, acquireClean>>

\* ---- process_message lines 133-135 and 145-151: complete or dead-letter
Dispose(m) ==
    /\ pc[m] = "dispose"
    /\ \E ok \in BOOLEAN :
          /\ QueueCall(m, ResolvedDisposition("found" \in ev[m]), ok)
          /\ pc' = [pc EXCEPT ![m] = IF ok THEN "done" ELSE "except"]
    /\ UNCHANGED <<waitVars, abandonedWith, sysVars, loopVars, otherVars,
                   docVars, rowLock, artifact, payload, attempt, seen,
                   deliveries, histVars>>

\* ---- process_message lines 153-163: the except handler
Except(m) ==
    /\ pc[m] = "except"
    /\ pc' = [pc EXCEPT ![m] = "done"]
    /\ IF HandlerLogRaises(payload[m].kind)
         THEN \* the log line raises; the exception leaves process_message
              /\ ev' = Add(m, {"raised"})
              /\ UNCHANGED <<disposition, abandonedWith>>
         ELSE \* abandon_message; its own failure is logged and swallowed
              \E ok \in BOOLEAN :
                 /\ QueueCall(m, "abandon", ok)
                 /\ abandonedWith' =
                      [abandonedWith EXCEPT ![m] =
                         IF ok /\ "claimed" \in ev[m]
                           THEN [status |-> status[DocOf(m)],
                                 delivery |-> deliveries[m]]
                           ELSE @]
    /\ UNCHANGED <<waitVars, sysVars, loopVars, otherVars,
                   docVars, rowLock, artifact, payload, attempt, seen,
                   deliveries, histVars>>

\* ---- the external indexer puts the chunks of a document into the index
IndexerProduces(d) ==
    /\ ~artifact[d]
    /\ artifact' = [artifact EXCEPT ![d] = TRUE]
    /\ UNCHANGED <<waitVars, abandonedWith, sysVars, loopVars, otherVars,
                   docVars, rowLock, payload, pc, attempt, seen, ev, disposition,
                   deliveries, histVars>>

\* every step but the trigger call
NextButTrigger ==
    \/ \E m \in Msgs : Receive(m)
    \/ \E m \in Msgs : Parse(m)
    \/ \E m \in Msgs : TryAcquireSelect(m)
    \/ \E m \in Msgs : TryAcquireCommit(m)
    \/ \E m \in Msgs : CompleteSkipped(m)
    \/ \E m \in Msgs : Poll(m)
    \/ \E m \in Msgs : UpdateStatus(m)
    \/ \E m \in Msgs : Dispose(m)
    \/ \E m \in Msgs : Except(m)
    \/ \E d \in Docs : IndexerProduces(d)

Next ==
    \/ NextButTrigger
    \/ \E m \in Msgs : Trigger(m)

Spec == Init /\ [][Next]_vars

\* ======== the application as deployed: the worker together with the other
\* writers of documents.status and the shutdown of the worker task

taskVars == <<payload, pc, attempt, seen, ev, disposition, deliveries, checks,
              delays, abandonedWith>>

\* ---- webhooks.py: the background task process_document_metadata

NoChunksMessage == "No chunks found after metadata merge retries"
MergeErrorMessage == "Metadata merge failed"

\* merge_metadata_for_document: what the retry loop can return when the chunks
\* of the document are, or are not, in the index at its last search; a search
\* or a merge write that raises on the last attempt gives 'error'
MergeOutcomes(chunks) ==
    IF chunks THEN {"success", "error"} ELSE {"no_chunks_found", "error"}

\* update_document_status_after_merge lines 233-249
MergedStatus(result) == IF result = "success" THEN INDEXED ELSE FAILED
MergedMessage(result) ==
    CASE result = "success" -> NULL
      [] result = "no_chunks_found" -> NoChunksMessage
      [] OTHER -> MergeErrorMessage

\* process_document_metadata lines 305-321: the merge runs and returns
MergeMetadata(d) ==
    /\ mergePc[d] = "idle"
    /\ \E r \in MergeOutcomes(artifact[d]) :
          mergeResult' = [mergeResult EXCEPT ![d] = r]
    /\ mergePc' = [mergePc EXCEPT ![d] = "update"]
    /\ UNCHANGED <<docVars, rowLock, artifact, taskVars, histVars, worker,
                   syncPc, syncDirty, loopVars, otherVars>>

\* update_document_status_after_merge lines 218-256, called at line 324: the
\* status is written whatever it was; an exception of the store is logged
UpdateAfterMerge(d) ==
    /\ mergePc[d] = "update"
    /\ mergePc' = [mergePc EXCEPT ![d] = "done"]
    /\ \/ /\ RowLockFree(d)
          /\ status' = [status EXCEPT ![d] = MergedStatus(mergeResult[d])]
          /\ error_message' =
               [error_message EXCEPT ![d] =
                  IF MergedMessage(mergeResult[d]) # NULL
                    THEN MergedMessage(mergeResult[d]) ELSE @]
       \/ UNCHANGED <<status, error_message>>
    /\ UNCHANGED <<processing_lock_id, processing_started_at, rowLock, artifact,
                   taskVars, histVars, worker, mergeResult, syncPc, syncDirty,
                   loopVars, otherVars>>

\* ---- admin.py: sync_document_status

\* lines 33-76: select the PENDING documents and mark those with chunks in the
\* index INDEXED (a search that raises leaves the document as it is); with no
\* PENDING document the request returns at line 39
SyncSelect ==
    /\ syncPc = "idle"
    /\ \E d \in Docs : status[d] = PENDING
    /\ \E marked \in SUBSET {d \in Docs : status[d] = PENDING /\ artifact[d]} :
          syncDirty' = marked
    /\ syncPc' = "commit"
    /\ UNCHANGED <<docVars, rowLock, artifact, taskVars, histVars, worker,
                   mergePc, mergeResult, loopVars, otherVars>>

\* line 79: the commit writes INDEXED to every marked row, whatever its status
\* has become since the select; lines 86-91 when it raises
SyncCommit ==
    /\ syncPc = "commit"
    /\ syncPc' = "idle"
    /\ syncDirty' = {}
    /\ \/ /\ \A d \in syncDirty : RowLockFree(d)
          /\ status' = [d \in Ids |-> IF d \in syncDirty THEN INDEXED ELSE status[d]]
       \/ UNCHANGED status
    /\ UNCHANGED <<error_message, processing_lock_id, processing_started_at,
                   rowLock, artifact, taskVars, histVars, worker, mergePc,
                   mergeResult, loopVars, otherVars>>

\* ---- function_app.py: process_document_queue, a second consumer of the queue

FunctionErrorMessage == "Processing error"

\* lines 112-126: json.loads and data.get for the four fields
FunctionParse(kind) ==
    CASE kind = "ok" -> "process"
      [] kind = "missing_field" -> "return"
      [] OTHER -> "raise"

\* the function host completes the message when the handler returns and
\* abandons it when the handler raises (lines 126, 168, 173)
HostDisposition(outcome) == IF outcome = "raise" THEN "abandoned" ELSE "completed"

\* lines 101-126: the queue hands the message to the function
FunctionReceive(m) ==
    LET step == FunctionParse(payload[m].kind) IN
    /\ Deliverable(m)
    /\ deliveries' = [deliveries EXCEPT ![m] = @ + 1]
    /\ ev' = [ev EXCEPT ![m] = {"function"}]
    /\ seen' = [seen EXCEPT ![m] = NULL]
    /\ attempt' = [attempt EXCEPT ![m] = 0]
    /\ checks' = [checks EXCEPT ![m] = 0]
    /\ delays' = [delays EXCEPT ![m] = 0]
    /\ pc' = [pc EXCEPT ![m] = IF step = "process" THEN "f_processing" ELSE "done"]
    /\ disposition' = [disposition EXCEPT ![m] =
                         IF step = "process" THEN "none" ELSE HostDisposition(step)]
    /\ UNCHANGED <<docVars, rowLock, artifact, payload, abandonedWith, histVars,
                   sysVars, loopVars, otherVars>>

\* shared_code/database.py update_document_status lines 107-137: True when the
\* row exists and the commit succeeds
FunctionUpdate(m, new, msg, ok) ==
    LET d == DocOf(m) IN
    IF ok
      THEN /\ status[d] # ABSENT /\ RowLockFree(d)
           /\ status' = [status EXCEPT ![d] = new]
           /\ error_message' = [error_message EXCEPT ![d] = NewErrorMessage(@, msg)]
      ELSE UNCHANGED <<status, error_message>>

\* lines 131-135: a PROCESSING write that returned False raises
FunctionAfterProcessing_Unchecked(success) == "f_trigger"
FunctionAfterProcessing(success) == IF success THEN "f_trigger" ELSE "f_failed"

\* lines 128-135: the status is set to PROCESSING whatever it was
FunctionSetProcessing(m) ==
    /\ pc[m] = "f_processing"
    /\ \E ok \in BOOLEAN :
          /\ FunctionUpdate(m, PROCESSING, NULL, ok)
          /\ pc' = [pc EXCEPT ![m] = FunctionAfterProcessing(ok)]
          /\ ev' = [ev EXCEPT ![m] =
                      @ \cup {IF ok THEN "f_processing" ELSE "f_processing_false"}]
    /\ UNCHANGED <<processing_lock_id, processing_started_at, rowLock, artifact,
                   payload, attempt, seen, disposition, deliveries, checks,
                   delays, abandonedWith, histVars, sysVars, loopVars, otherVars>>

\* lines 137-138 and trigger_indexer lines 76-95: the run is accepted, or the
\* request fails (another response, or requests.post raises); trigger_indexer
\* logs the failure and returns either way
FunctionTrigger(m) ==
    /\ pc[m] = "f_trigger"
    /\ pc' = [pc EXCEPT ![m] = "f_indexed"]
    /\ \E accepted \in BOOLEAN :
          ev' = [ev EXCEPT ![m] =
                   @ \cup {IF accepted THEN "f_trigger" ELSE "f_trigger_failed"}]
    /\ UNCHANGED <<docVars, rowLock, artifact, payload, attempt, seen,
                   disposition, deliveries, checks, delays, abandonedWith,
                   histVars, sysVars, loopVars, otherVars>>

\* lines 140-155: wait 30 seconds, set the status to INDEXED
FunctionSetIndexed(m) ==
    /\ pc[m] = "f_indexed"
    /\ \E ok \in BOOLEAN :
          /\ FunctionUpdate(m, INDEXED, NULL, ok)
          /\ pc' = [pc EXCEPT ![m] = IF ok THEN "done" ELSE "f_failed"]
          /\ ev' = [ev EXCEPT ![m] =
                      @ \cup {IF ok THEN "f_indexed" ELSE "f_indexed_false"}]
          /\ disposition' = [disposition EXCEPT ![m] =
                               IF ok THEN HostDisposition("return") ELSE @]
    /\ UNCHANGED <<processing_lock_id, processing_started_at, rowLock, artifact,
                   payload, attempt, seen, deliveries, checks, delays,
                   abandonedWith, histVars, sysVars, loopVars, otherVars>>

\* lines 157-173: set the status to FAILED, whatever the write returns, and
\* raise again
FunctionSetFailed(m) ==
    /\ pc[m] = "f_failed"
    /\ \E ok \in BOOLEAN :
          /\ FunctionUpdate(m, FAILED, FunctionErrorMessage, ok)
          /\ ev' = [ev EXCEPT ![m] =
                      @ \cup {IF ok THEN "f_failed" ELSE "f_failed_false"}]
    /\ pc' = [pc EXCEPT ![m] = "done"]
    /\ disposition' = [disposition EXCEPT ![m] = HostDisposition("raise")]
    /\ UNCHANGED <<processing_lock_id, processing_started_at, rowLock, artifact,
                   payload, attempt, seen, deliveries, checks, delays,
                   abandonedWith, histVars, sysVars, loopVars, otherVars>>

\* the function handler
NextFunction ==
    \/ \E m \in Msgs : FunctionReceive(m)
    \/ \E m \in Msgs : FunctionSetProcessing(m)
    \/ \E m \in Msgs : FunctionTrigger(m)
    \/ \E m \in Msgs : FunctionSetIndexed(m)
    \/ \E m \in Msgs : FunctionSetFailed(m)

\* the function handler alone on the queue
SpecFunction == Init /\ [][NextFunction]_vars

\* ---- main.py lifespan lines 99-108: worker_task.cancel()

\* the positions of process_message; at each the task waits for a call
InProcessMessage ==
    {"parse", "acquire", "commit", "skip", "trigger", "poll", "update",
     "dispose", "except"}

\* the CancelledError reaches start() in gather, gather cancels the tasks of
\* the batch, and neither except clause of the worker catches it; the session
\* of a cancelled task is closed, which rolls its transaction back
Shutdown ==
    /\ worker = "running"
    /\ worker' = "stopped"
    /\ pc' = [m \in Msgs |-> IF pc[m] \in InProcessMessage THEN "cancelled" ELSE pc[m]]
    /\ ev' = [m \in Msgs |->
                IF pc[m] \in InProcessMessage THEN ev[m] \cup {"cancelled"} ELSE ev[m]]
    /\ rowLock' = [d \in Ids |-> {m \in rowLock[d] : pc[m] \notin InProcessMessage}]
    /\ UNCHANGED <<docVars, artifact, payload, attempt, seen, disposition,
                   deliveries, checks, delays, abandonedWith, histVars, mergePc,
                   mergeResult, syncPc, syncDirty, loopVars, otherVars>>

NextSystem ==
    \/ Next
    \/ \E d \in Docs : MergeMetadata(d)
    \/ \E d \in Docs : UpdateAfterMerge(d)
    \/ SyncSelect
    \/ SyncCommit
    \/ NextFunction

\* document 1 with status s and its event at position p; the other documents
\* were indexed before, and the other events name a document whose row is gone
InitDocumentOne(s, p) ==
    /\ status0 = [d \in Ids |-> IF d = 1 THEN s
                                 ELSE IF d \in Docs THEN INDEXED ELSE ABSENT]
    /\ status = status0
    /\ error_message = [d \in Ids |-> NULL]
    /\ processing_lock_id = [d \in Ids |-> NULL]
    /\ processing_started_at = [d \in Ids |-> NULL]
    /\ rowLock = [d \in Ids |-> {}]
    /\ artifact = [d \in Ids |-> d \in Docs \ {1}]
    /\ payload = [m \in Msgs |-> [kind |-> "ok",
                                   document_id |-> IF m = 1 THEN 1 ELSE MissingId]]
    /\ pc = [m \in Msgs |-> IF m = 1 THEN p ELSE "queued"]
    /\ attempt = [m \in Msgs |-> 0]
    /\ seen = [m \in Msgs |-> NULL]
    /\ ev = [m \in Msgs |-> {}]
    /\ disposition = [m \in Msgs |-> "none"]
    /\ deliveries = [m \in Msgs |-> 0]
    /\ triggerCount = [d \in Ids |-> 0]
    /\ terminalWrites = [d \in Ids |-> 0]
    /\ acquireTrue = [d \in Ids |-> 0]
    /\ acquireClean = [d \in Ids |-> 0]
    /\ checks = [m \in Msgs |-> 0]
    /\ delays = [m \in Msgs |-> 0]
    /\ abandonedWith = [m \in Msgs |-> [status |-> NULL, delivery |-> 0]]
    /\ worker = "running"
    /\ mergePc = [d \in Docs |-> IF d = 1 THEN "idle" ELSE "done"]
    /\ mergeResult = [d \in Docs |-> IF d = 1 THEN NULL ELSE "success"]
    /\ syncPc = "idle"
    /\ syncDirty = {}

\* document 1 freshly uploaded, its event queued
InitOneDocument == InitDocumentOne(PENDING, "queued")

InitSystem == InitOneDocument /\ InitLoopOff /\ InitOthersOff

SpecSystem == InitSystem /\ [][NextSystem]_vars

\* the worker and the shutdown of the application
NextLifespan == Next \/ Shutdown

SpecLifespan == InitSystem /\ [][NextLifespan]_vars

\* the worker on one document, its history telling a rejected run from an
\* accepted one
NextTraced ==
    \/ NextButTrigger
    \/ \E m \in Msgs : TriggerTraced(m)

SpecTraced == InitSystem /\ [][NextTraced]_vars

\* ======== the dispatch loop of start(), lines 62-85, on its own: a
\* process_message task is one of inFlight tasks, and ends by returning (after
\* its queue call) or by raising, as Except shows it can

storeAndTaskVars == <<docVars, rowLock, artifact, taskVars, histVars, sysVars>>

\* variant of BatchLimit: receive_messages hands over all that is queued
BatchLimit_Unbounded(n) == n
\* lines 65-68: max_message_count = max_concurrent_messages
BatchLimit(n) ==
    IF n < max_concurrent_messages THEN n ELSE max_concurrent_messages

\* variant of ReturnExceptions: gather raises the first exception of a task
ReturnExceptions_Default == FALSE
\* line 78: asyncio.gather(*tasks, return_exceptions=True)
ReturnExceptions == TRUE

\* lines 83-85: an exception inside the loop is logged, the loop backs off
AfterLoopError == "backoff"

\* a message is published to the queue
Enqueue ==
    /\ active + inFlight < NumQueued
    /\ active' = active + 1
    /\ UNCHANGED <<loop, batchSize, inFlight, escaped, storeAndTaskVars,
                   otherVars>>

\* lines 65-77: a batch arrives and one task is made for each message
ReceiveMessages ==
    /\ loop = "receive"
    /\ active > 0
    /\ \E n \in 1..BatchLimit(active) :
          /\ batchSize' = n
          /\ inFlight' = inFlight + n
          /\ active' = active - n
    /\ escaped' = 0
    /\ loop' = "gather"
    /\ UNCHANGED <<storeAndTaskVars, otherVars>>

\* lines 79-81: nothing arrived within max_wait_time, pause
ReceiveNothing ==
    /\ loop = "receive"
    /\ loop' = "sleep"
    /\ UNCHANGED <<active, batchSize, inFlight, escaped, storeAndTaskVars,
                   otherVars>>

\* lines 83-85: receive_messages raised
ReceiveRaises ==
    /\ loop = "receive"
    /\ loop' = AfterLoopError
    /\ UNCHANGED <<active, batchSize, inFlight, escaped, storeAndTaskVars,
                   otherVars>>

\* lines 81 and 85: the pause ends, the loop receives again
WakeUp ==
    /\ loop \in {"sleep", "backoff"}
    /\ loop' = "receive"
    /\ UNCHANGED <<active, batchSize, inFlight, escaped, storeAndTaskVars,
                   otherVars>>

\* a task ends: it completed or dead-lettered its message, it abandoned it
\* (the message is active again), or it raised (the message is active again
\* when its lock expires)
TaskEnds ==
    /\ inFlight > 0
    /\ inFlight' = inFlight - 1
    /\ \E how \in {"settled", "abandoned", "raised"} :
          /\ active' = IF how = "settled" THEN active ELSE active + 1
          /\ escaped' = IF how = "raised" THEN escaped + 1 ELSE escaped
    /\ UNCHANGED <<loop, batchSize, storeAndTaskVars,
                   otherVars>>

\* line 78: gather returns when every task has ended; without
\* return_exceptions it would raise as soon as one task has raised
Gather ==
    /\ loop = "gather"
    /\ \/ /\ inFlight = 0
          /\ loop' = "receive"
       \/ /\ ~ReturnExceptions
          /\ escaped > 0
          /\ loop' = AfterLoopError
    /\ UNCHANGED <<active, batchSize, inFlight, escaped, storeAndTaskVars,
                   otherVars>>

NextDispatch ==
    \/ Enqueue
    \/ ReceiveMessages
    \/ ReceiveNothing
    \/ ReceiveRaises
    \/ WakeUp
    \/ TaskEnds
    \/ Gather

InitDispatch ==
    /\ InitOneDocument
    /\ loop = "receive"
    /\ active \in 0..NumQueued
    /\ batchSize = 0
    /\ inFlight = 0
    /\ escaped = 0
    /\ InitOthersOff

SpecDispatch == InitDispatch /\ [][NextDispatch]_vars

\* ======== the wire contract of the queue: publish_document_event
\* (service_bus_service.py) writes the body with json.dumps, process_message
\* reads it with json.loads and the four lookups.  A text is a sequence of
\* characters.

Digits == <<"0", "1", "2", "3", "4", "5", "6", "7", "8", "9">>
IsDigit(c) == \E k \in 1..10 : Digits[k] = c
DigitValue(c) == CHOOSE k \in 0..9 : Digits[k + 1] = c

\* a character outside ASCII (U+00E9)
NonAscii == "e_acute"
NameChars == {"a", "/", "\"", "\\", NonAscii}

RECURSIVE EncodeNat(_)
EncodeNat(n) ==
    IF n < 10 THEN <<Digits[n + 1]>>
              ELSE EncodeNat(n \div 10) \o <<Digits[(n % 10) + 1]>>
\* json.dumps of an int
EncodeInt(n) == IF n < 0 THEN <<"-">> \o EncodeNat(0 - n) ELSE EncodeNat(n)

\* variant of Escape: the characters of a string are written as they are
Escape_Raw(c) == <<c>>
\* json.dumps of one character of a str (ensure_ascii=True)
Escape(c) ==
    CASE c = "\"" -> <<"\\", "\"">>
      [] c = "\\" -> <<"\\", "\\">>
      [] c = NonAscii -> <<"\\", "u", "0", "0", "e", "9">>
      [] OTHER -> <<c>>

RECURSIVE EscapeAll(_)
EscapeAll(s) == IF s = <<>> THEN <<>> ELSE Escape(Head(s)) \o EscapeAll(Tail(s))
\* json.dumps of a str
EncodeStr(s) == <<"\"">> \o EscapeAll(s) \o <<"\"">>

\* a JSON value: [type |-> "int" | "str" | "dict" | "none", v |-> ...]
IntValue(n) == [type |-> "int", v |-> n]
StrValue(s) == [type |-> "str", v |-> s]
EncodeValue(x) == IF x.type = "int" THEN EncodeInt(x.v) ELSE EncodeStr(x.v)

RECURSIVE EncodeMembers(_)
EncodeMembers(ps) ==
    IF ps = <<>> THEN <<>>
    ELSE EncodeStr(ps[1][1]) \o <<":", " ">> \o EncodeValue(ps[1][2])
            \o (IF Len(ps) > 1 THEN <<",", " ">> ELSE <<>>)
            \o EncodeMembers(Tail(ps))
\* json.dumps of a dict, given as the sequence of its items
Dumps(ps) == <<"{">> \o EncodeMembers(ps) \o <<"}">>

\* ---- json.loads, for objects of string and integer members and for a
\* string or an integer alone
At(t, i) == IF i <= Len(t) THEN t[i] ELSE "EOF"
Fail == [ok |-> FALSE, val |-> [type |-> "none", v |-> 0], next |-> 0]

RECURSIVE SkipWs(_, _)
SkipWs(t, i) == IF At(t, i) = " " THEN SkipWs(t, i + 1) ELSE i

RECURSIVE ScanDigits(_, _, _)
ScanDigits(t, i, acc) ==
    IF IsDigit(At(t, i))
      THEN ScanDigits(t, i + 1, acc * 10 + DigitValue(At(t, i)))
      ELSE [v |-> acc, next |-> i]

ParseNumber(t, i) ==
    LET neg == At(t, i) = "-"
        j == IF neg THEN i + 1 ELSE i
        r == ScanDigits(t, j, 0)
    IN  IF ~IsDigit(At(t, j)) \/ (At(t, j) = "0" /\ IsDigit(At(t, j + 1)))
          THEN Fail
          ELSE [ok |-> TRUE, val |-> IntValue(IF neg THEN 0 - r.v ELSE r.v),
                next |-> r.next]

RECURSIVE ScanString(_, _, _)
ScanString(t, i, acc) ==
    LET c == At(t, i)
        e == At(t, i + 1)
    IN  CASE c = "EOF" -> Fail
          [] c = "\"" -> [ok |-> TRUE, val |-> StrValue(acc), next |-> i + 1]
          [] c = "\\" /\ e \in {"\"", "\\", "/"} ->
                ScanString(t, i + 2, Append(acc, e))
          [] c = "\\" /\ e = "u" /\ i + 5 <= Len(t) ->
                IF SubSeq(t, i + 2, i + 5) = <<"0", "0", "e", "9">>
                  THEN ScanString(t, i + 6, Append(acc, NonAscii))
                  ELSE Fail
          [] c = "\\" -> Fail
          [] OTHER -> ScanString(t, i + 1, Append(acc, c))

ParseString(t, i) == IF At(t, i) = "\"" THEN ScanString(t, i + 1, <<>>) ELSE Fail
ParseScalar(t, i) == IF At(t, i) = "\"" THEN ParseString(t, i) ELSE ParseNumber(t, i)

RECURSIVE ParseMembers(_, _, _)
ParseMembers(t, i, acc) ==
    LET k == ParseString(t, SkipWs(t, i)) IN
    IF ~k.ok THEN Fail ELSE
    LET c == SkipWs(t, k.next) IN
    IF At(t, c) # ":" THEN Fail ELSE
    LET x == ParseScalar(t, SkipWs(t, c + 1)) IN
    IF ~x.ok THEN Fail ELSE
    LET e == SkipWs(t, x.next)
        acc2 == [key \in DOMAIN acc \cup {k.val.v} |->
                    IF key = k.val.v THEN x.val ELSE acc[key]]
    IN  CASE At(t, e) = "," -> ParseMembers(t, e + 1, acc2)
          [] At(t, e) = "}" ->
                [ok |-> TRUE, val |-> [type |-> "dict", v |-> acc2], next |-> e + 1]
          [] OTHER -> Fail

ParseObject(t, i) ==
    IF At(t, SkipWs(t, i + 1)) = "}"
      THEN [ok |-> TRUE, val |-> [type |-> "dict", v |-> <<>>],
            next |-> SkipWs(t, i + 1) + 1]
      ELSE ParseMembers(t, i + 1, <<>>)

\* json.loads: the value, or type "none" where json.loads raises
Loads(t) ==
    LET i == SkipWs(t, 1)
        r == IF At(t, i) = "{" THEN ParseObject(t, i) ELSE ParseScalar(t, i)
    IN  IF r.ok /\ SkipWs(t, r.next) = Len(t) + 1 THEN r.val ELSE Fail.val

K_document_id == <<"d", "o", "c", "u", "m", "e", "n", "t", "_", "i", "d">>
K_blob_name == <<"b", "l", "o", "b", "_", "n", "a", "m", "e">>
K_folder_id == <<"f", "o", "l", "d", "e", "r", "_", "i", "d">>
K_user_id == <<"u", "s", "e", "r", "_", "i", "d">>
K_timestamp == <<"t", "i", "m", "e", "s", "t", "a", "m", "p">>
\* process_message lines 102-105: the keys the handler looks up
RequiredKeys == {K_document_id, K_blob_name, K_folder_id, K_user_id}

\* datetime.utcnow().isoformat()
Timestamp == <<"2", "0", "2", "5", "-", "1", "1", "-", "1", "8", "T",
               "0", "9", ":", "3", "0", ":", "0", "0">>

\* service_bus_service.py lines 56-62: the body of the message
MessageBody(e) ==
    Dumps(<< <<K_document_id, IntValue(e.document_id)>>,
             <<K_blob_name, StrValue(e.blob_name)>>,
             <<K_folder_id, IntValue(e.folder_id)>>,
             <<K_user_id, IntValue(e.user_id)>>,
             <<K_timestamp, StrValue(Timestamp)>> >>)

\* process_message lines 101-105: the kind of payload a body is to the handler
KindOf(t) ==
    LET x == Loads(t) IN
    CASE x.type = "none" -> "not_json"
      [] x.type # "dict" -> "not_object"
      [] ~(RequiredKeys \subseteq DOMAIN x.v) -> "missing_field"
      [] OTHER -> "ok"

\* the four fields process_message binds at lines 102-105
FieldsOf(t) ==
    LET x == Loads(t).v IN
    [document_id |-> x[K_document_id].v, blob_name |-> x[K_blob_name].v,
     folder_id |-> x[K_folder_id].v, user_id |-> x[K_user_id].v]

RECURSIVE TextsUpTo(_)
TextsUpTo(n) ==
    IF n = 0 THEN {<<>>}
    ELSE TextsUpTo(n - 1) \cup
           {Append(s, c) : s \in {x \in TextsUpTo(n - 1) : Len(x) = n - 1},
                           c \in NameChars}

\* the arguments of publish_document_event: ids of one and more digits, blob
\* names of up to MaxNameLen characters
Events ==
    [document_id : {1, 10, 305}, blob_name : TextsUpTo(MaxNameLen),
     folder_id : {3, 27}, user_id : {9, 140}]

notWireVars == <<storeAndTaskVars, loopVars, mergerVars, uploadVars>>

\* publish_document_event lines 56-72: the body is built and sent
PublishBody ==
    /\ wirePc = "publish"
    /\ body' = MessageBody(event)
    /\ wirePc' = "queued"
    /\ UNCHANGED <<event, data, notWireVars>>

\* process_message lines 101-105 on the body received
ParseBody ==
    /\ wirePc = "queued"
    /\ wirePc' = KindOf(body)
    /\ data' = IF KindOf(body) = "ok" THEN FieldsOf(body) ELSE data
    /\ UNCHANGED <<event, body, notWireVars>>

NextWire == PublishBody \/ ParseBody

InitWire ==
    /\ InitOneDocument
    /\ InitLoopOff
    /\ wirePc = "publish"
    /\ event \in Events
    /\ body = <<>>
    /\ data = NoEvent
    /\ InitMergerOff
    /\ NotUploading

SpecWire == InitWire /\ [][NextWire]_vars

\* ---- the steps of merge_metadata_for_document

notMergerVars == <<docVars, rowLock, artifact, taskVars, histVars, sysVars,
                   loopVars, wireVars, uploadVars>>

\* an attempt ended without a result: kind is "none" (the search found no
\* chunk), "search_err" or "write_err" (the search or the merge write raised)
EndAttempt(kind) ==
    LET k == mergeAttempt
        n == merge_max_retries
    IN
    /\ mergeLog' = Append(mergeLog, kind)
    /\ IF ~MergeSwallows(kind)
         THEN \* the exception leaves merge_metadata_for_document
              /\ mergeCallPc' = "returned"
              /\ mergeReturn' = [status |-> "raised", attempts |-> k]
              /\ UNCHANGED <<mergeAttempt, mergeDelays>>
         ELSE IF mergeImpl = "service" /\ ~MergeSleepsAfter(k, n)
         THEN \* the service returns from the else branch
              /\ mergeCallPc' = "returned"
              /\ mergeReturn' = [status |-> MergeLastStatus(kind), attempts |-> k]
              /\ UNCHANGED <<mergeAttempt, mergeDelays>>
         ELSE /\ mergeDelays' = IF MergeSleepsAfter(k, n) THEN mergeDelays + 1
                                                          ELSE mergeDelays
              /\ IF MergeMoreAttempts(k, n)
                   THEN /\ mergeAttempt' = k + 1
                        /\ mergeCallPc' = "search"
                        /\ UNCHANGED mergeReturn
                   ELSE \* the loop is over
                        /\ mergeCallPc' = "returned"
                        /\ mergeReturn' = [status |-> MergeEndStatus(mergeImpl),
                                           attempts |-> MergeEndAttempts(mergeImpl, n)]
                        /\ UNCHANGED mergeAttempt

\* service line 95, function line 112: _search_chunks_by_parent_id, which
\* answers the chunks of the document or raises
MergeSearch ==
    /\ mergeCallPc = "search"
    /\ mergeSearches' = mergeSearches + 1
    /\ \E outcome \in {"answer", "raise"} :
          IF outcome = "raise"
            THEN EndAttempt("search_err") /\ UNCHANGED mergeWrites
            ELSE IF artifact[1]
              THEN /\ mergeCallPc' = "merge"
                   /\ UNCHANGED <<mergeAttempt, mergeLog, mergeWrites, mergeDelays,
                                  mergeReturn>>
              ELSE EndAttempt("none") /\ UNCHANGED mergeWrites
    /\ UNCHANGED <<mergeImpl, merge_max_retries, notMergerVars>>

\* service lines 101-114, function lines 118-130: _merge_metadata_into_chunks,
\* then the success result
MergeWrite ==
    /\ mergeCallPc = "merge"
    /\ mergeWrites' = mergeWrites + 1
    /\ \E outcome \in {"ok", "raise"} :
          IF outcome = "raise"
            THEN EndAttempt("write_err")
            ELSE /\ mergeLog' = Append(mergeLog, "ok")
                 /\ mergeCallPc' = "returned"
                 /\ mergeReturn' = [status |-> "success", attempts |-> mergeAttempt]
                 /\ UNCHANGED <<mergeAttempt, mergeDelays>>
    /\ UNCHANGED <<mergeImpl, merge_max_retries, mergeSearches, notMergerVars>>

NextMerge ==
    \/ MergeSearch
    \/ MergeWrite
    \/ IndexerProduces(1)

\* a call with max_retries of 1 to MaxMergeRetries for a document whose chunks
\* are not yet in the index
InitMerge ==
    /\ InitOneDocument
    /\ InitLoopOff
    /\ InitWireOff
    /\ mergeImpl \in MergeImpls
    /\ merge_max_retries \in 1..MaxMergeRetries
    /\ mergeCallPc = "search"
    /\ mergeAttempt = 1
    /\ mergeLog = <<>>
    /\ mergeSearches = 0
    /\ mergeWrites = 0
    /\ mergeDelays = 0
    /\ mergeReturn = NotReturned
    /\ NotUploading

SpecMerge == InitMerge /\ [][NextMerge]_vars

\* ---- the upload request of document 1; its event is message 1

uploadFrame == <<error_message, processing_lock_id, processing_started_at,
                 rowLock, artifact, payload, attempt, seen, ev, disposition,
                 deliveries, checks, delays, abandonedWith, histVars, sysVars,
                 loopVars, wireVars, mergerVars>>

\* documents.py lines 95-106: the row is inserted PENDING and committed; an
\* exception gives HTTP 500 (lines 143-148)
UploadCreateRow ==
    /\ uploadPc = "create"
    /\ \/ /\ status' = [status EXCEPT ![1] = PENDING]
          /\ uploadPc' = "blob"
          /\ UNCHANGED uploadResponse
       \/ /\ uploadPc' = "done"
          /\ uploadResponse' = "500"
          /\ UNCHANGED status
    /\ UNCHANGED <<pc, publishReturn, sentEvent, uploadFrame>>

\* documents.py lines 108-125: the blob is stored and its name committed
UploadBlob ==
    /\ uploadPc = "blob"
    /\ \/ /\ uploadPc' = "publish"
          /\ UNCHANGED uploadResponse
       \/ /\ uploadPc' = "done"
          /\ uploadResponse' = "500"
    /\ UNCHANGED <<status, pc, publishReturn, sentEvent, uploadFrame>>

\* publish_document_event lines 48-72: the client and the sender are opened
\* and send_messages is awaited; an exception of any of them is answered False
\* (lines 81-88)
PublishSend ==
    /\ uploadPc = "publish"
    /\ \/ /\ sentEvent' = TRUE
          /\ pc' = [pc EXCEPT ![1] = "queued"]
          /\ uploadPc' = "close"
          /\ UNCHANGED publishReturn
       \/ /\ publishReturn' = "false"
          /\ uploadPc' = "respond"
          /\ UNCHANGED <<sentEvent, pc>>
    /\ UNCHANGED <<status, uploadResponse, uploadFrame>>

\* publish_document_event line 79: return True leaves the two async with
\* blocks of lines 49 and 54, which close the sender and the client; an
\* exception of a close is caught at line 81 and answered False
PublishClose ==
    /\ uploadPc = "close"
    /\ \E closed \in BOOLEAN :
          publishReturn' = IF closed THEN "true" ELSE "false"
    /\ uploadPc' = "respond"
    /\ UNCHANGED <<status, pc, sentEvent, uploadResponse, uploadFrame>>

\* documents.py lines 134-141: the result of the publish is not looked at
UploadRespond ==
    /\ uploadPc = "respond"
    /\ uploadResponse' = "201"
    /\ uploadPc' = "done"
    /\ UNCHANGED <<status, pc, publishReturn, sentEvent, uploadFrame>>

NextUpload ==
    \/ UploadCreateRow
    \/ UploadBlob
    \/ PublishSend
    \/ PublishClose
    \/ UploadRespond
    \/ Next

\* document 1 is about to be uploaded: it has no row and no event yet
InitUpload ==
    /\ InitDocumentOne(ABSENT, "unsent")
    /\ InitLoopOff
    /\ InitWireOff
    /\ InitMergerOff
    /\ uploadPc = "create"
    /\ publishReturn = "none"
    /\ sentEvent = FALSE
    /\ uploadResponse = "none"

SpecUpload == InitUpload /\ [][NextUpload]_vars

\* ---- what the claims speak about

OkMsg(m) == payload[m].kind = "ok"
Done(m) == pc[m] = "done"
\* the status write and the queue calls of this delivery did not fail
NoWriteOrQueueFault(m) == ev[m] \cap {"write_err", "write_missing", "queue_err"} = {}
Holders(d) == {m \in Msgs : OkMsg(m) /\ DocOf(m) = d /\ "claimed" \in ev[m]}

\* C1: for a document that is PENDING, however the try_acquire_lock calls of
\* the tasks interleave, at most one call returns True, exactly one does as
\* soon as one call has returned without a store error, and never do two
\* tasks both hold a successful claim of the document.
C1_ExactlyOneClaim ==
    \A d \in Docs :
        status0[d] = PENDING =>
            /\ acquireTrue[d] <= 1
            /\ acquireClean[d] >= 1 => acquireTrue[d] = 1
            /\ Cardinality(Holders(d)) <= 1

\* two tasks called try_acquire_lock on the same PENDING document in their
\* first delivery: one claimed it, the other found it PROCESSING
C1_Witness ==
    \E d \in Docs : \E m1, m2 \in Msgs :
        /\ m1 # m2 /\ OkMsg(m1) /\ OkMsg(m2) /\ DocOf(m1) = d /\ DocOf(m2) = d
        /\ status0[d] = PENDING
        /\ deliveries[m1] = 1 /\ deliveries[m2] = 1
        /\ "claimed" \in ev[m1]
        /\ "skipped" \in ev[m2] /\ seen[m2] = PROCESSING
        /\ acquireClean[d] = 2

\* C2: a delivery that finds its document PROCESSING, INDEXED or FAILED makes
\* no claim, trigger call, poll or status write, calls complete_message (which
\* removes the message unless the queue call fails), and a document that is not
\* PENDING keeps its status.
C2_SkipNotPending ==
    /\ \A m \in Msgs :
          seen[m] \in {PROCESSING, INDEXED, FAILED} =>
            /\ ev[m] \cap {"claimed", "trigger", "poll", "write_indexed",
                           "write_failed", "write_err", "dead_letter"} = {}
            /\ pc[m] \in {"done", "except"} => "complete" \in ev[m]
            /\ (Done(m) /\ "queue_err" \notin ev[m]) => disposition[m] = "completed"
    /\ \A d \in Docs :
          status0[d] # PENDING =>
              status[d] = status0[d] /\ triggerCount[d] = 0 /\ terminalWrites[d] = 0

\* a redelivered message found its document PROCESSING and was completed
C2_Witness ==
    \E m \in Msgs :
        /\ deliveries[m] = 2 /\ seen[m] = PROCESSING
        /\ Done(m) /\ disposition[m] = "completed"
        /\ status[DocOf(m)] = PROCESSING

\* C3: over all deliveries and redeliveries the trigger is called at most once
\* per document and a terminal status is written at most once per document.
C3_AtMostOnce ==
    \A d \in Docs : triggerCount[d] <= 1 /\ terminalWrites[d] <= 1

\* every message names the same document, all are handled, one of them was
\* delivered twice, and the document was triggered and resolved once
C3_Witness ==
    \E d \in Docs :
        /\ \A m \in Msgs : OkMsg(m) /\ DocOf(m) = d /\ Done(m)
        /\ \E m \in Msgs : deliveries[m] = 2
        /\ triggerCount[d] = 1 /\ terminalWrites[d] = 1

\* C4: when the poll of a claimed document finds the artifact (and neither the
\* status write nor the queue call fails), process_message ends with status
\* INDEXED, an empty error_message and the message completed, neither
\* dead-lettered nor abandoned.
C4_FoundEndsIndexed ==
    \A m \in Msgs :
        (Done(m) /\ "found" \in ev[m] /\ NoWriteOrQueueFault(m)) =>
            /\ status[DocOf(m)] = INDEXED
            /\ error_message[DocOf(m)] = NULL
            /\ disposition[m] = "completed"
            /\ ev[m] \cap {"dead_letter", "abandon"} = {}

\* the artifact was found on attempt 3 of 12
C4_Witness ==
    \E m \in Msgs :
        /\ Done(m) /\ "found" \in ev[m] /\ attempt[m] = 3
        /\ NoWriteOrQueueFault(m) /\ "search_err" \notin ev[m]
        /\ status0[DocOf(m)] = PENDING
        /\ status[DocOf(m)] = INDEXED /\ disposition[m] = "completed"

\* C5: when every one of the max_retries checks of a claimed document answers
\* no artifact (and neither the status write nor the queue call fails), the
\* status is FAILED with the timeout message before the queue call, the message
\* is dead-lettered, neither completed nor abandoned, and is not delivered again.
C5_TimeoutEndsFailed ==
    \A m \in Msgs :
        ("timeout" \in ev[m] /\ "search_err" \notin ev[m] /\ NoWriteOrQueueFault(m)) =>
            /\ attempt[m] = max_retries
            /\ pc[m] \in {"dispose", "done"} =>
                  /\ status[DocOf(m)] = FAILED
                  /\ error_message[DocOf(m)] = TimeoutMessage
            /\ Done(m) =>
                  /\ disposition[m] = "dead_lettered"
                  /\ ev[m] \cap {"complete", "abandon"} = {}
                  /\ ~Deliverable(m)

C5_Witness ==
    \E m \in Msgs :
        /\ Done(m) /\ "timeout" \in ev[m] /\ "search_err" \notin ev[m]
        /\ NoWriteOrQueueFault(m)
        /\ status0[DocOf(m)] = PENDING
        /\ status[DocOf(m)] = FAILED /\ disposition[m] = "dead_lettered"

\* C6: when the store raises inside try_acquire_lock the message is abandoned
\* and not completed, and no message is completed while its document is PENDING.
C6_StoreErrorInClaimAbandons ==
    \A m \in Msgs :
        /\ "claim_err" \in ev[m] =>
              /\ "complete" \notin ev[m]
              /\ Done(m) => "abandon" \in ev[m]
        /\ (OkMsg(m) /\ disposition[m] = "completed") => status[DocOf(m)] # PENDING

\* C7: the message of a claimed document is completed only when INDEXED was
\* written and dead-lettered only when FAILED was written; after a failed status
\* write the message is not acknowledged.
C7_AckOnlyAfterDurableWrite ==
    \A m \in Msgs :
        "claimed" \in ev[m] =>
            /\ "complete" \in ev[m] => status[DocOf(m)] = INDEXED
            /\ "dead_letter" \in ev[m] => status[DocOf(m)] = FAILED
            /\ "write_err" \in ev[m] => ev[m] \cap {"complete", "dead_letter"} = {}

\* C8: a delivery in which the existence query raised writes no FAILED and
\* dead-letters nothing: FAILED and the dead-letter come only after max_retries
\* checks that all answered no artifact; a poll that ends without the artifact
\* after a query raised ends with the message abandoned.
C8_SearchErrorIsTransient ==
    \A m \in Msgs :
        "search_err" \in ev[m] =>
            /\ ev[m] \cap {"write_failed", "dead_letter"} = {}
            /\ (Done(m) /\ "found" \notin ev[m]) => "abandon" \in ev[m]

\* C9: when the trigger call raises after a successful claim, no poll and no
\* status write is made, the message is neither completed nor dead-lettered,
\* abandon_message is called (and returns the message to the queue unless the
\* queue call fails), and the document stays PROCESSING.
C9_TriggerErrorAbandons ==
    \A m \in Msgs :
        "trigger_err" \in ev[m] =>
            /\ ev[m] \cap {"poll", "found", "timeout", "write_indexed", "write_failed",
                           "write_err", "write_missing", "complete",
                           "dead_letter"} = {}
            /\ status[DocOf(m)] = PROCESSING
            /\ Done(m) =>
                  /\ "abandon" \in ev[m]
                  /\ "queue_err" \notin ev[m] => disposition[m] = "abandoned"

C9_Witness ==
    \E m \in Msgs :
        /\ Done(m) /\ ev[m] = {"claimed", "trigger", "trigger_err", "abandon"}
        /\ disposition[m] = "abandoned"
        /\ status[DocOf(m)] = PROCESSING

\* C10: a message with a malformed payload is abandoned, process_message does
\* not raise, and no store, trigger or poll call is made for it.
C10_MalformedAbandoned ==
    \A m \in Msgs :
        (~OkMsg(m) /\ Done(m)) =>
            /\ "abandon" \in ev[m]
            /\ ev[m] \subseteq {"abandon", "queue_err"}

\* C14: wait_for_indexing returns true at the first check that is positive and
\* checks no more after it; it returns false after exactly max_retries negative
\* checks; it never makes more than max_retries checks, and it waits retry_delay
\* once after each negative check that another check follows, never else.
C14_WaitForIndexing ==
    \A m \in Msgs :
        /\ checks[m] <= max_retries
        /\ pc[m] = "poll" =>
              /\ checks[m] = attempt[m] - 1
              /\ delays[m] = checks[m]
              /\ ev[m] \cap {"found", "timeout"} = {}
        /\ "found" \in ev[m] =>
              /\ pc[m] # "poll"
              /\ checks[m] = attempt[m]
              /\ delays[m] = checks[m] - 1
              /\ "timeout" \notin ev[m]
        /\ "timeout" \in ev[m] =>
              /\ pc[m] # "poll"
              /\ checks[m] = max_retries
              /\ delays[m] = max_retries - 1

\* one call returned true at its third check, after two delays, and another
\* returned false after max_retries checks and max_retries - 1 delays
C14_Witness ==
    \E m1, m2 \in Msgs :
        /\ "found" \in ev[m1] /\ checks[m1] = 3 /\ delays[m1] = 2
        /\ "timeout" \in ev[m2] /\ checks[m2] = max_retries
        /\ delays[m2] = max_retries - 1

\* C18: when no row has the document id of the event, try_acquire_lock returns
\* False, complete_message is called (and removes the message unless the queue
\* call fails), and no trigger call, poll or status write is made.
C18_MissingRowAcknowledged ==
    /\ \A m \in Msgs :
          seen[m] = ABSENT =>
            /\ "skipped" \in ev[m]
            /\ ev[m] \cap {"claimed", "trigger", "poll", "write_indexed",
                           "write_failed", "write_missing", "write_err",
                           "dead_letter"} = {}
            /\ pc[m] \in {"done", "except"} => "complete" \in ev[m]
            /\ (Done(m) /\ "queue_err" \notin ev[m]) => disposition[m] = "completed"
    /\ status[MissingId] = ABSENT
    /\ triggerCount[MissingId] = 0 /\ terminalWrites[MissingId] = 0

\* an event naming a document without a row was completed
C18_Witness ==
    \E m \in Msgs :
        /\ OkMsg(m) /\ DocOf(m) = MissingId /\ seen[m] = ABSENT
        /\ Done(m) /\ disposition[m] = "completed"
        /\ ev[m] = {"skipped", "complete"}

\* C19 as stated: a message abandoned after its document was claimed leaves the
\* document PROCESSING, every later delivery of it finds PROCESSING, makes no
\* claim and calls complete_message, and the status stays PROCESSING.
C19_AbandonedStaysProcessing ==
    \A m \in Msgs :
        abandonedWith[m].status # NULL =>
            /\ abandonedWith[m].status = PROCESSING
            /\ status[DocOf(m)] = PROCESSING
            /\ deliveries[m] > abandonedWith[m].delivery =>
                  /\ "claimed" \notin ev[m]
                  /\ seen[m] \in {NULL, PROCESSING}
                  /\ pc[m] \in {"done", "except"} => "complete" \in ev[m]

\* C19 amended: a message abandoned after its document was claimed leaves the
\* document PROCESSING, or INDEXED or FAILED when the status write preceded the
\* failing queue call; every later delivery of it finds that status, makes no
\* claim, trigger call, poll or status write and calls complete_message; the
\* worker never claims the document again and its status stays as it was left.
C19_AbandonedNeverReclaimed ==
    \A m \in Msgs :
        abandonedWith[m].status # NULL =>
            /\ abandonedWith[m].status \in {PROCESSING, INDEXED, FAILED}
            /\ status[DocOf(m)] = abandonedWith[m].status
            /\ acquireTrue[DocOf(m)] = 1
            /\ deliveries[m] > abandonedWith[m].delivery =>
                  /\ ev[m] \cap {"claimed", "trigger", "poll", "write_indexed",
                                 "write_failed", "write_err", "dead_letter"} = {}
                  /\ seen[m] \in {NULL, abandonedWith[m].status}
                  /\ pc[m] \in {"done", "except"} => "complete" \in ev[m]
                  /\ (Done(m) /\ "queue_err" \notin ev[m]) =>
                        disposition[m] = "completed"

\* the trigger raised after the claim, the message was abandoned, came again,
\* found PROCESSING and was completed; the document is still PROCESSING
C19_Witness ==
    \E m \in Msgs :
        /\ abandonedWith[m] = [status |-> PROCESSING, delivery |-> 1]
        /\ deliveries[m] = 2
        /\ seen[m] = PROCESSING /\ Done(m) /\ disposition[m] = "completed"
        /\ status[DocOf(m)] = PROCESSING /\ terminalWrites[DocOf(m)] = 0

\* C20: a process_message call in which no queue, store, trigger or search
\* call raised ends with a queue disposition; if it claimed the document, the
\* document is INDEXED or FAILED and the message completed or dead-lettered,
\* after at most max_retries checks and max_retries - 1 delays.
C20_EndsWithDisposition ==
    \A m \in Msgs :
        (Done(m) /\ ev[m] \cap {"claim_err", "trigger_err", "search_err",
                                "write_err", "queue_err"} = {}) =>
            /\ disposition[m] \in {"completed", "dead_lettered", "abandoned"}
            /\ "claimed" \in ev[m] =>
                  /\ status[DocOf(m)] \in {INDEXED, FAILED}
                  /\ disposition[m] \in {"completed", "dead_lettered"}
                  /\ checks[m] <= max_retries
                  /\ delays[m] <= max_retries - 1

\* C11: once the status of a document is INDEXED or FAILED, no step of the
\* system (worker, metadata background task, admin sync, function handler)
\* changes it.
C11_TerminalIsFinal ==
    [][\A d \in Docs :
          status[d] \in {INDEXED, FAILED} => status'[d] = status[d]]_vars

\* C12: every change of a status is PENDING to PROCESSING by the commit of a
\* claim of the worker, or PROCESSING to INDEXED or FAILED by the status update
\* of the worker's process_message.
C12_Lifecycle ==
    [][\A d \in Docs :
          status'[d] # status[d] =>
             \/ /\ status[d] = PENDING /\ status'[d] = PROCESSING
                /\ \E m \in Msgs :
                      DocOf(m) = d /\ pc[m] = "commit" /\ pc'[m] = "trigger"
             \/ /\ status[d] = PROCESSING /\ status'[d] \in {INDEXED, FAILED}
                /\ \E m \in Msgs :
                      DocOf(m) = d /\ pc[m] = "update" /\ pc'[m] = "dispose"]_vars

\* C13: when update_document_status(document_id, INDEXED, error_message=None)
\* has committed, the stored error_message is empty.
C13_SuccessClearsErrorMessage ==
    [][\A m \in Msgs :
          (pc[m] = "update" /\ pc'[m] = "dispose" /\ "write_indexed" \in ev'[m]) =>
              error_message'[DocOf(m)] = NULL]_vars

\* C15: after the shutdown of the application no document is left PROCESSING
\* by a delivery that claimed it and neither wrote its terminal status nor
\* made a queue call for its message.
C15_ShutdownDrains ==
    worker = "stopped" =>
        \A m \in Msgs :
            ("claimed" \in ev[m] /\ status[DocOf(m)] = PROCESSING) =>
                ev[m] \cap {"write_indexed", "write_failed", "complete",
                            "dead_letter", "abandon"} # {}

\* C16: an exception that leaves a process_message task, or that
\* receive_messages raises, does not end the dispatch loop, and the loop leaves
\* gather only when every task of the batch has ended.
C16_FailuresIsolated ==
    /\ loop \in {"receive", "gather", "sleep", "backoff"}
    /\ (escaped > 0 /\ loop # "gather") => inFlight = 0

\* a batch of three in which one task raised was gathered, and the loop is
\* receiving again
C16_Witness ==
    /\ loop = "receive" /\ batchSize = 3 /\ escaped = 1 /\ inFlight = 0

\* C17: at most max_concurrent_messages tasks are in flight, a batch has at
\* most that many messages, and while the loop receives, sleeps or backs off
\* no task of an earlier batch is in flight.
C17_BoundedConcurrency ==
    /\ inFlight <= max_concurrent_messages
    /\ batchSize <= max_concurrent_messages
    /\ inFlight <= batchSize
    /\ loop # "gather" => inFlight = 0

\* a full batch is in flight while more messages wait in the queue
C17_Witness ==
    /\ loop = "gather" /\ inFlight = max_concurrent_messages
    /\ batchSize = max_concurrent_messages /\ active > 0

\* C21: in a delivery whose queue calls did not fail, at most one of
\* complete, dead-letter and abandon is issued, and a finished delivery has
\* issued exactly one: complete for a skipped or an indexed document,
\* dead-letter for a poll timeout, abandon for an exception.
C21_OneDisposition ==
    \A m \in Msgs :
        "queue_err" \notin ev[m] =>
            /\ Cardinality(ev[m] \cap {"complete", "dead_letter", "abandon"}) <= 1
            /\ Done(m) =>
                  /\ Cardinality(ev[m] \cap {"complete", "dead_letter", "abandon"}) = 1
                  /\ "complete" \in ev[m] <=>
                        ev[m] \cap {"skipped", "claim_err", "found"} # {}
                  /\ "dead_letter" \in ev[m] <=> "timeout" \in ev[m]
                  /\ disposition[m] = Effect(CHOOSE c \in ev[m] :
                                        c \in {"complete", "dead_letter", "abandon"})

\* C22: the body publish_document_event writes is well-formed to
\* process_message, and the document_id, blob_name, folder_id and user_id the
\* worker reads from it are the ones that were published.
C22_PublishParseIdentity ==
    /\ wirePc \in {"off", "publish", "queued", "ok"}
    /\ wirePc = "queued" => (KindOf(body) = "ok" /\ ~ParseRaises(KindOf(body)))
    /\ wirePc = "ok" => data = event

\* an event whose blob name holds a quote and a backslash went through
C22_Witness ==
    /\ wirePc = "ok"
    /\ event.blob_name = <<"\"", "\\">>
    /\ event.document_id = 305
    /\ data = event

\* C23: within one delivery the trigger is called only after try_acquire_lock
\* returned True, the first existence check is made only after the trigger call
\* returned, the status write only after the poll returned, and complete (of a
\* claimed document) or dead-letter only after the status write was attempted.
C23_StepOrder ==
    \A m \in Msgs :
        LET polled == ev[m] \cap {"found", "timeout"} # {}
            written == ev[m] \cap {"write_indexed", "write_failed", "write_err",
                                   "write_missing"} # {}
        IN
        /\ (pc[m] = "trigger" \/ "trigger" \in ev[m]) => "claimed" \in ev[m]
        /\ pc[m] = "trigger" => "trigger" \notin ev[m]
        /\ (pc[m] = "poll" \/ "poll" \in ev[m] \/ checks[m] > 0) =>
              ("trigger" \in ev[m] /\ "trigger_err" \notin ev[m])
        /\ pc[m] = "poll" => ~polled /\ ~written
        /\ (pc[m] = "update" \/ written) => polled
        /\ pc[m] = "update" => ~written
        /\ pc[m] = "dispose" => written
        /\ ("dead_letter" \in ev[m] \/ ("complete" \in ev[m] /\ "claimed" \in ev[m]))
              => written
        /\ pc[m] \in {"update", "dispose"} =>
              ev[m] \cap {"complete", "dead_letter", "abandon"} = {}

\* a delivery went through claim, trigger, two checks, the INDEXED write and
\* the complete call
C23_Witness ==
    \E m \in Msgs :
        /\ Done(m) /\ checks[m] = 2 /\ disposition[m] = "completed"
        /\ ev[m] = {"claimed", "trigger", "poll", "found", "write_indexed",
                    "complete"}

\* C24: a try_acquire_lock call that returns False (no row, a status other
\* than PENDING, or a store error at the select or at the commit) leaves
\* status, processing_started_at, processing_lock_id and error_message of the
\* document as they were before the call; between its select and its commit
\* no step changes the row.
C24_FailedClaimLeavesRow ==
    [][\A m \in Msgs :
          LET d == DocOf(m) IN
          /\ (pc[m] \in {"acquire", "commit"} /\ pc'[m] = "skip") =>
                /\ status'[d] = status[d]
                /\ processing_started_at'[d] = processing_started_at[d]
                /\ processing_lock_id'[d] = processing_lock_id[d]
                /\ error_message'[d] = error_message[d]
                /\ seen'[m] # NULL => status'[d] = seen'[m]
          /\ (pc[m] = "commit" /\ pc'[m] = "commit") =>
                /\ status'[d] = status[d] /\ status[d] = seen[m]
                /\ processing_started_at'[d] = processing_started_at[d]
                /\ processing_lock_id'[d] = processing_lock_id[d]
                /\ error_message'[d] = error_message[d]]_vars

\* the commit of a claim raised: the call returned False and the document is
\* PENDING as the select had found it, its row lock released
C24_Witness ==
    \E m \in Msgs :
        /\ pc[m] = "skip" /\ "claim_err" \in ev[m] /\ seen[m] = PENDING
        /\ status[DocOf(m)] = PENDING /\ rowLock[DocOf(m)] = {}
        /\ processing_lock_id[DocOf(m)] = NULL /\ error_message[DocOf(m)] = NULL

\* C25: a document the worker has claimed and that is PROCESSING has its
\* processing_started_at and its processing_lock_id set: the three are written
\* by the one commit of the claim, and never is one stored without the others.
C25_ClaimWritesAllThree ==
    \A d \in Docs :
        /\ (acquireTrue[d] > 0 /\ status[d] = PROCESSING) =>
              /\ processing_started_at[d] # NULL
              /\ processing_lock_id[d] # NULL
        /\ processing_started_at[d] # NULL <=> processing_lock_id[d] # NULL

\* C26: merge_metadata_for_document with max_retries = n >= 1 makes at most n
\* chunk searches; it returns 'success' with attempts = k at the first attempt
\* k whose search found a chunk and whose merge write succeeded, and
\* 'no_chunks_found' with attempts = n when all n searches found no chunk; the
\* attempts of a result never exceed n.
C26_MergeRetryBound ==
    LET n == merge_max_retries
        r == mergeReturn
    IN
    /\ mergeSearches <= n /\ mergeAttempt <= n /\ Len(mergeLog) <= n
    /\ mergeWrites <= mergeSearches
    /\ r.attempts <= n
    /\ mergeCallPc = "returned" =>
          /\ r.status \in {"success", "no_chunks_found", "error"}
          /\ r.status = "success" <=> mergeLog[Len(mergeLog)] = "ok"
          /\ r.status = "success" =>
                /\ r.attempts = Len(mergeLog) /\ mergeSearches = r.attempts
                /\ \A k \in 1..(Len(mergeLog) - 1) : mergeLog[k] # "ok"
          /\ (Len(mergeLog) = n /\ \A k \in 1..n : mergeLog[k] = "none") =>
                (r.status = "no_chunks_found" /\ r.attempts = n /\ mergeSearches = n)
          /\ r.status # "success" => Len(mergeLog) = n
    /\ mergeCallPc # "returned" => r = NotReturned

\* two searches found nothing, the third found the chunks and the merge write
\* succeeded: 'success' with attempts = 3 of 4
C26_Witness ==
    /\ mergeCallPc = "returned" /\ merge_max_retries = 4
    /\ mergeLog = <<"none", "none", "ok">>
    /\ mergeReturn = [status |-> "success", attempts |-> 3]
    /\ mergeSearches = 3 /\ mergeWrites = 1 /\ mergeDelays = 2

\* C27: the service's merge_metadata_for_document never raises; an exception
\* of the search or of the merge write before the last attempt is swallowed
\* and, after one delay, the next attempt starts with a search; on the last
\* attempt it gives the result 'error'; 'success' is returned only after a
\* merge write that did not fail.
C27_MergeSwallowsErrors ==
    mergeImpl = "service" =>
        LET n == merge_max_retries
            Errors == {"search_err", "write_err"}
            returned == mergeCallPc = "returned"
        IN
        /\ mergeReturn.status # "raised"
        /\ \A k \in 1..Len(mergeLog) :
              /\ (mergeLog[k] \in Errors /\ k < n) => mergeAttempt > k
              /\ (mergeLog[k] \in Errors /\ k = n) =>
                    (returned /\ mergeReturn.status = "error")
              /\ mergeLog[k] = "ok" => k = Len(mergeLog)
        /\ mergeCallPc \in {"search", "merge"} =>
              /\ mergeAttempt = Len(mergeLog) + 1
              /\ mergeSearches =
                   Len(mergeLog) + (IF mergeCallPc = "merge" THEN 1 ELSE 0)
              /\ mergeDelays = Len(mergeLog)
        /\ returned =>
              /\ mergeSearches = Len(mergeLog)
              /\ mergeDelays = Len(mergeLog) - 1
        /\ mergeWrites =
              Cardinality({k \in 1..Len(mergeLog) : mergeLog[k] \in {"write_err", "ok"}})
        /\ mergeReturn.status = "success" =>
              (mergeLog[Len(mergeLog)] = "ok" /\ mergeWrites >= 1)

\* the merge write of the first attempt raised, the second attempt searched
\* again and its merge write succeeded
C27_Witness ==
    /\ mergeImpl = "service" /\ mergeCallPc = "returned"
    /\ mergeLog = <<"write_err", "ok">>
    /\ mergeWrites = 2 /\ mergeSearches = 2 /\ mergeDelays = 1
    /\ mergeReturn = [status |-> "success", attempts |-> 2]

\* C28: publish_document_event does not raise; it returns True exactly when
\* the event was sent; when it returns False the upload is answered with
\* success, the document stays PENDING, no event of it is in the queue and the
\* worker never processes it.
C28_PublishFailureLeavesPending ==
    /\ publishReturn \in {"none", "true", "false"}
    /\ publishReturn # "none" => (publishReturn = "true" <=> sentEvent)
    /\ publishReturn = "false" =>
          /\ uploadPc = "done" => uploadResponse = "201"
          /\ status[1] = PENDING
          /\ pc[1] = "unsent" /\ deliveries[1] = 0
          /\ triggerCount[1] = 0 /\ acquireTrue[1] = 0

\* C29: when the indexer rejects the run (a response other than 202),
\* trigger_indexer_run returns and process_message goes on to poll: the
\* message is not abandoned for it, and when the poll times out (and neither
\* the status write nor the queue call fails) the document is FAILED with the
\* timeout message and the message dead-lettered.
C29_RejectedTriggerPolls ==
    \A m \in Msgs :
        "trigger_rejected" \in ev[m] =>
            /\ "trigger_err" \notin ev[m]
            /\ pc[m] \in {"poll", "update", "dispose", "done", "except"}
            /\ pc[m] # "poll" => checks[m] >= 1
            /\ (pc[m] = "except" \/ "abandon" \in ev[m]) => "queue_err" \in ev[m]
            /\ ("timeout" \in ev[m] /\ NoWriteOrQueueFault(m)) =>
                  /\ checks[m] = max_retries
                  /\ pc[m] \in {"dispose", "done"} =>
                        /\ status[DocOf(m)] = FAILED
                        /\ error_message[DocOf(m)] = TimeoutMessage
                  /\ Done(m) => disposition[m] = "dead_lettered"

\* the run was rejected, twelve checks found nothing, the document is FAILED
\* and the message dead-lettered
C29_Witness ==
    \E m \in Msgs :
        /\ Done(m) /\ deliveries[m] = 1
        /\ ev[m] = {"claimed", "trigger", "trigger_rejected", "poll", "timeout",
                    "write_failed", "dead_letter"}
        /\ status[DocOf(m)] = FAILED /\ disposition[m] = "dead_lettered"

\* the only message that names its document
AloneOnDocument(m) == \A n \in Msgs \ {m} : DocOf(n) # DocOf(m)

\* C30 as stated: in process_document_queue a message that lacks one of the
\* four fields returns without a status write; otherwise PROCESSING is written
\* and later INDEXED; any failure in between (the PROCESSING write, the
\* trigger of the indexer, the INDEXED write) is followed by the FAILED write
\* with an error message and the handler raises; INDEXED is written only
\* after the PROCESSING write succeeded.
C30_AnyFailureSetsFailed ==
    \A m \in Msgs :
        "function" \in ev[m] =>
            /\ payload[m].kind = "missing_field" =>
                  /\ Done(m) /\ ev[m] = {"function"}
                  /\ disposition[m] = "completed"
            /\ "f_indexed" \in ev[m] => "f_processing" \in ev[m]
            /\ (Done(m) /\ OkMsg(m)) =>
                  IF ev[m] \cap {"f_processing_false", "f_trigger_failed",
                                 "f_indexed_false"} = {}
                    THEN /\ {"f_processing", "f_indexed"} \subseteq ev[m]
                         /\ disposition[m] = "completed"
                    ELSE /\ disposition[m] = "abandoned"
                         /\ "f_indexed" \notin ev[m]
                         /\ "f_failed_false" \notin ev[m] => "f_failed" \in ev[m]

\* C30 amended: a message that lacks one of the four fields returns without a
\* status write; otherwise PROCESSING is written, the indexer is triggered
\* (a trigger that fails is logged and the handler goes on) and INDEXED is
\* written; when the PROCESSING or the INDEXED write returns False the handler
\* calls the FAILED write with an error message, does not look at what it
\* returns, and raises; when that write succeeds and no other message names
\* the document, the document is FAILED with the message; INDEXED is written
\* only after the PROCESSING write succeeded.
C30_FailedWriteSetsFailed ==
    \A m \in Msgs :
        "function" \in ev[m] =>
            /\ payload[m].kind = "missing_field" =>
                  /\ Done(m) /\ ev[m] = {"function"}
                  /\ disposition[m] = "completed"
            /\ "f_indexed" \in ev[m] => "f_processing" \in ev[m]
            /\ "f_trigger_failed" \in ev[m] =>
                  /\ "f_processing" \in ev[m]
                  /\ pc[m] \in {"f_indexed", "f_failed", "done"}
            /\ (Done(m) /\ OkMsg(m)) =>
                  IF ev[m] \cap {"f_processing_false", "f_indexed_false"} = {}
                    THEN /\ {"f_processing", "f_indexed"} \subseteq ev[m]
                         /\ disposition[m] = "completed"
                         /\ AloneOnDocument(m) => status[DocOf(m)] = INDEXED
                    ELSE /\ disposition[m] = "abandoned"
                         /\ "f_indexed" \notin ev[m]
                         /\ ("f_failed" \in ev[m]) # ("f_failed_false" \in ev[m])
                         /\ ("f_failed" \in ev[m] /\ AloneOnDocument(m)) =>
                               /\ status[DocOf(m)] = FAILED
                               /\ error_message[DocOf(m)] = FunctionErrorMessage

\* the PROCESSING write succeeded, the run was accepted, the INDEXED write
\* returned False, the FAILED write succeeded and the handler raised
C30_Witness ==
    \E m \in Msgs :
        /\ Done(m) /\ AloneOnDocument(m)
        /\ ev[m] = {"function", "f_processing", "f_trigger", "f_indexed_false",
                    "f_failed"}
        /\ status[DocOf(m)] = FAILED
        /\ error_message[DocOf(m)] = FunctionErrorMessage
        /\ disposition[m] = "abandoned"

====
